---- MODULE Spec2Model ----
(***************************************************************************)
(* DAT Conditional Updater (src/update_dat.py) as a state machine.         *)
(*                                                                         *)
(* One run of main(): the configuration is loaded, then the input file is  *)
(* read record by record; a data record is passed through every rule in    *)
(* declaration order and written to the output; a summary ends the run.    *)
(*                                                                         *)
(* Bytes are naturals 0..255, a record is a sequence of bytes (index 1 is  *)
(* Python's index 0), a text is a sequence of Unicode code points.         *)
(***************************************************************************)
EXTENDS Integers, Sequences, FiniteSets, TLC

VARIABLES
    filename,        \* sys.argv[1], 'data.dat' by default
    missing,         \* which of the two files os.path.exists does not find
    config,          \* the sections of the INI file, in file order
    file_size,       \* os.path.getsize(input_file)
    settings,        \* load_config's settings dict
    rules,           \* load_config's rule list
    record_count,    \* file_size // RECORD_SIZE
    i,               \* loop index of `for i in range(record_count)`
    input,           \* the bytes f_in.read returned for the record in flight
    record,          \* the bytearray being updated
    j,               \* position in `for rule in rules` (1-based)
    changes,         \* change lines of the record in flight
    has_change,
    modified_count,
    rule_hits,
    logs,            \* per-record lines of the log, in order
    out_size,        \* bytes written to f_out so far
    summary,         \* the summary lines, once logged
    exit_code,       \* main()'s return value, -1 while running
    pc

vars == <<filename, missing, config, file_size, settings, rules, record_count,
          i, input, record, j, changes, has_change, modified_count, rule_hits,
          logs, out_size, summary, exit_code, pc>>

-----------------------------------------------------------------------------
(* Bounds of the model *)

\* RecordSize of the small configurations
SmallRecordSize == 5
\* records in a small input file
MaxRecords == 2
\* bytes of a trailing partial record in a small input file
MaxTrailing == 1
\* rule sections in a small configuration
MaxRules == 2

-----------------------------------------------------------------------------
(* Python helpers *)

Max(a, b) == IF a >= b THEN a ELSE b

\* a slice index clamped the way PySlice_AdjustIndices does for step 1
AdjustIndex(idx, n) ==
    IF idx < 0 THEN (IF idx + n < 0 THEN 0 ELSE idx + n)
    ELSE IF idx > n THEN n ELSE idx

\* rec[start:stop]
Slice(rec, start, stop) ==
    LET s == AdjustIndex(start, Len(rec))
        e == AdjustIndex(stop, Len(rec))
    IN  IF e <= s THEN << >> ELSE SubSeq(rec, s + 1, e)

\* rec[start:stop] = new_bytes  (the bytearray grows or shrinks as needed)
SliceAssign(rec, start, stop, new_bytes) ==
    LET s == AdjustIndex(start, Len(rec))
        e == Max(AdjustIndex(stop, Len(rec)), s)
    IN  SubSeq(rec, 1, s) \o new_bytes \o SubSeq(rec, e + 1, Len(rec))

\* str.encode('utf-16-be'): two bytes per BMP code point, a surrogate pair
\* (four bytes) per supplementary code point
RECURSIVE Encode(_)
Encode(text) ==
    IF text = << >> THEN << >>
    ELSE LET c == Head(text)
             unit(u) == << u \div 256, u % 256 >>
         IN  (IF c < 65536 THEN unit(c)
              ELSE unit(55296 + ((c - 65536) \div 1024))
                   \o unit(56320 + ((c - 65536) % 1024)))
             \o Encode(Tail(text))

\* bytes.decode('utf-16-be', errors='replace')
RECURSIVE Decode(_)
Decode(bs) ==
    IF bs = << >> THEN << >>
    ELSE IF Len(bs) < 2 THEN << 65533 >>
    ELSE LET u == bs[1] * 256 + bs[2]
             rest == SubSeq(bs, 3, Len(bs))
         IN  IF u >= 55296 /\ u < 56320
             THEN IF Len(bs) < 4 THEN << 65533 >>
                  ELSE LET v == bs[3] * 256 + bs[4]
                       IN  IF v >= 56320 /\ v < 57344
                           THEN << 65536 + (u - 55296) * 1024 + (v - 56320) >>
                                \o Decode(SubSeq(bs, 5, Len(bs)))
                           ELSE << 65533 >> \o Decode(rest)
             ELSE IF u >= 56320 /\ u < 57344
             THEN << 65533 >> \o Decode(rest)
             ELSE << u >> \o Decode(rest)

-----------------------------------------------------------------------------
(* Configuration: parse_conditions, load_config *)

\* An item of a 'Byte:Value, Byte:Value' string, after split(',') and strip():
\* colon says whether it holds a ':', pos is int(byte_pos), value the rest.
Item(pos, value) == [colon |-> TRUE, pos |-> pos, value |-> value]

RECURSIVE parse_conditions(_)
parse_conditions(items) ==
    IF items = << >> THEN << >>
    ELSE LET item == Head(items)
         IN  (IF item.colon
              THEN << [StartByte |-> item.pos, Value |-> item.value] >>
              ELSE << >>)
             \o parse_conditions(Tail(items))

parse_updates(items) == parse_conditions(items)

\* section.startswith('Rule-'): a section name is <<prefix, rest>>
IsRuleSection(section) == section.Name[1] = "Rule-"

RECURSIVE load_rules(_)
load_rules(sections) ==
    IF sections = << >> THEN << >>
    ELSE LET section == Head(sections)
             rule == [Name |-> section.Name,
                      Conditions |-> parse_conditions(section.Conditions),
                      Updates |-> parse_updates(section.Updates)]
         IN  (IF IsRuleSection(section)
              THEN (IF rule.Conditions # << >> /\ rule.Updates # << >>
                    THEN << rule >> ELSE << >>)
              ELSE << >>)
             \o load_rules(Tail(sections))

load_settings(sections) ==
    LET s == sections[1]
    IN  [RecordSize |-> s.RecordSize,
         HeaderMarker |-> s.HeaderMarker,
         DataMarker |-> s.DataMarker]

RECORD_SIZE == settings.RecordSize
HEADER_MARKER == 48 + settings.HeaderMarker
DATA_MARKER == 48 + settings.DataMarker

-----------------------------------------------------------------------------
(* Configurations and input files *)

SettingsSection(size, hm, dm) ==
    [Name |-> << "", "Settings" >>,
     RecordSize |-> size, HeaderMarker |-> hm, DataMarker |-> dm]

RuleSection(id, conds, upds) ==
    [Name |-> << "Rule-", id >>, Conditions |-> conds, Updates |-> upds]

\* the texts '1' and '2'
T1 == << 49 >>
T2 == << 50 >>

\* Rule sections of the small configurations, for RecordSize S. Byte S is
\* the last byte of a record, so a two-byte window at Byte S or beyond ends
\* past the record, and a window at Byte 0 starts before it.
SecA(S) == RuleSection("A", << Item(2, T1) >>, << Item(2, T2) >>)
SecB(S) == RuleSection("B", << Item(2, T2) >>, << Item(3, T1) >>)
SecC(S) == RuleSection("C", << Item(2, T1), Item(4, T1) >>,
                            << Item(4, T2), Item(3, T2) >>)
SecD(S) == RuleSection("D", << Item(4, T1) >>, << Item(S, T2) >>)
SecE(S) == RuleSection("E", << Item(S, T1) >>, << Item(2, T1) >>)
SecF(S) == RuleSection("F", << Item(4, T1) >>, << Item(1, T1) >>)
SecG(S) == RuleSection("G", << Item(4, T1) >>, << Item(0, T2) >>)
\* a section with an empty Updates entry: ''.split(',') is one item, no ':'
SecZ(S) == RuleSection("Z", << Item(2, T1) >>,
                            << [colon |-> FALSE, pos |-> 0, value |-> << >>] >>)

Catalogue(S) ==
    { SecA(S), SecB(S), SecC(S), SecD(S), SecE(S), SecF(S), SecG(S),
      SecZ(S) }

\* the section lists of at most n sections of secs, no section twice (the
\* INI parser refuses a file that names a section twice)
RECURSIVE SectionLists(_, _)
SectionLists(n, secs) ==
    IF n = 0 THEN { << >> }
    ELSE { << >> } \cup
         UNION { { << sec >> \o rest :
                       rest \in SectionLists(n - 1, secs \ {sec}) } :
                 sec \in secs }

SmallConfigs ==
    { << SettingsSection(SmallRecordSize, 1, dm) >> \o rs :
        dm \in 1..2,
        rs \in SectionLists(MaxRules, Catalogue(SmallRecordSize)) }

\* records of a small input file: any marker, fields of 0x00 and '1'
RECURSIVE ByteSeqs(_, _)
ByteSeqs(n, bytes) ==
    IF n = 0 THEN { << >> }
    ELSE { << b >> \o t : b \in bytes, t \in ByteSeqs(n - 1, bytes) }

SmallRecords(size) ==
    { << m >> \o t : m \in {48, 49, 50}, t \in ByteSeqs(size - 1, {0, 49}) }

\* create_test_data.py: the reference fixture in/data.dat
record_size == 1300
num_records == 5

create_test_record(k) ==
    LET zero == [n \in 1..record_size |-> 0]
        hdr == [zero EXCEPT ![1] = 49]
        dat == [zero EXCEPT ![1] = 50]
        put(rec, off, text) ==
            SliceAssign(rec, off, off + Len(Encode(text)), Encode(text))
        r12 == put(put(put(dat, 49, << 48, 50 >>), 77, << 53, 51, 52 >>),
                   69, << 48, 48, 48 >>)
        r3 == put(put(dat, 233, << 57, 57 >>), 299, << 48, 48 >>)
    IN  IF k = 0 THEN hdr
        ELSE IF k \in {1, 2} THEN r12
        ELSE IF k = 3 THEN r3
        ELSE dat

\* the configuration the fixture is made for: the fallbacks of load_config
\* and the two rules create_test_data.py describes
FixtureConfig ==
    << SettingsSection(1300, 1, 2),
       RuleSection("1", << Item(50, << 48, 50 >>), Item(78, << 53, 51, 52 >>) >>,
                        << Item(70, << 48, 53, 54 >>) >>),
       RuleSection("2", << Item(234, << 57, 57 >>) >>,
                        << Item(300, << 55, 55 >>) >>) >>

\* the records f_in.read can return for record k of the input file
InputRecords(k) ==
    IF filename = "data.dat" THEN { create_test_record(k) }
    ELSE SmallRecords(RECORD_SIZE)

-----------------------------------------------------------------------------
(* The rule engine: main(), lines 115-150 *)

\* Classify with the data marker tested first
ClassifyDataFirst(first_byte, header_marker, data_marker) ==
    IF first_byte = data_marker THEN "data"
    ELSE IF first_byte = header_marker THEN "header"
    ELSE "other"

\* first_byte against the two markers, header first
Classify(first_byte, header_marker, data_marker) ==
    IF first_byte = header_marker THEN "header"
    ELSE IF first_byte = data_marker THEN "data"
    ELSE "other"

\* one condition against the current bytes of the record
CondHolds(cond, rec) ==
    LET offset == cond.StartByte - 1
        expected == Encode(cond.Value)
        actual == Slice(rec, offset, offset + Len(expected))
    IN  actual = expected

\* all_match after the loop over the conditions (the break only saves work)
RECURSIVE AllMatch(_, _)
AllMatch(conds, rec) ==
    IF conds = << >> THEN TRUE
    ELSE IF ~CondHolds(Head(conds), rec) THEN FALSE
    ELSE AllMatch(Tail(conds), rec)

\* MatchTarget comparing with the bytes as they were read
MatchTargetInput(rec) == input

\* the bytes a rule's conditions are compared with: the record as it is now
MatchTarget(rec) == rec

\* one update: the record after it, and its change line
ApplyUpdate(rec, name, upd) ==
    LET offset == upd.StartByte - 1
        new_bytes == Encode(upd.Value)
        old_bytes == Slice(rec, offset, offset + Len(new_bytes))
        old_val == Decode(old_bytes)
    IN  [record |-> SliceAssign(rec, offset, offset + Len(new_bytes), new_bytes),
         line |-> [Name |-> name, StartByte |-> upd.StartByte,
                   old_val |-> old_val, Value |-> upd.Value]]

\* the loop over a rule's updates: the record and the change lines after it
RECURSIVE ApplyUpdates(_, _, _, _)
ApplyUpdates(rec, chg, name, upds) ==
    IF upds = << >> THEN [record |-> rec, changes |-> chg]
    ELSE LET r == ApplyUpdate(rec, name, Head(upds))
         IN  ApplyUpdates(r.record, Append(chg, r.line), name, Tail(upds))

\* CountHit counting once per update
CountHitPerUpdate(hits, rule) ==
    [hits EXCEPT ![rule.Name] = @ + Len(rule.Updates)]

\* rule_hits[rule['Name']] += 1
CountHit(hits, rule) == [hits EXCEPT ![rule.Name] = @ + 1]

\* the record line of the log: its number, its tag, and the rules its change
\* lines name
LogLine(num, tag, chg) ==
    [num |-> num, tag |-> tag, rules |-> [k \in 1..Len(chg) |-> chg[k].Name]]

\* Summary with the header records taken out of the total
SummaryWithoutHeaders(modified, total, hits, rs) ==
    [modified |-> modified,
     total |-> total - Cardinality({k \in 1..Len(logs) : logs[k].tag = "HEADER"}),
     hits |-> [k \in 1..Len(rs) |-> << rs[k].Name, hits[rs[k].Name] >>]]

\* the summary lines: modified/total and the hits per rule, in rule order
Summary(modified, total, hits, rs) ==
    [modified |-> modified, total |-> total,
     hits |-> [k \in 1..Len(rs) |-> << rs[k].Name, hits[rs[k].Name] >>]]

-----------------------------------------------------------------------------
(* The run *)

Init ==
    /\ \/ /\ filename = "data.dat"
          /\ config = FixtureConfig
          /\ file_size = num_records * record_size
          /\ missing = "none"
       \/ /\ filename = "small.dat"
          /\ config \in SmallConfigs
          /\ \E n \in 0..MaxRecords, t \in 0..MaxTrailing :
                file_size = n * SmallRecordSize + t
          /\ missing \in {"none", "config", "input"}
    /\ settings = [RecordSize |-> 0, HeaderMarker |-> 0, DataMarker |-> 0]
    /\ rules = << >>
    /\ record_count = 0
    /\ i = 0
    /\ input = << >>
    /\ record = << >>
    /\ j = 0
    /\ changes = << >>
    /\ has_change = FALSE
    /\ modified_count = 0
    /\ rule_hits = << >>
    /\ logs = << >>
    /\ out_size = 0
    /\ summary = << >>
    /\ exit_code = -1
    /\ pc = "start"

\* lines 62-68: a file is missing, return 1
MissingFile ==
    /\ pc = "start"
    /\ missing # "none"
    /\ exit_code' = 1
    /\ pc' = "failed"
    /\ UNCHANGED <<filename, missing, config, file_size, settings, rules,
                   record_count, i, input, record, j, changes, has_change,
                   modified_count, rule_hits, logs, out_size, summary>>

\* lines 70-107: load the configuration, size the input, zero the counters
Start ==
    /\ pc = "start"
    /\ missing = "none"
    /\ settings' = load_settings(config)
    /\ rules' = load_rules(config)
    /\ record_count' = file_size \div settings'.RecordSize
    /\ modified_count' = 0
    /\ rule_hits' = [n \in {rules'[k].Name : k \in 1..Len(rules')} |-> 0]
    /\ pc' = "loop"
    /\ UNCHANGED <<filename, missing, config, file_size, i, input, record, j,
                   changes, has_change, logs, out_size, summary, exit_code>>

\* lines 110-119: read the next record and classify it
ReadRecord ==
    /\ pc = "loop"
    /\ i < record_count
    /\ \E rec \in InputRecords(i) :
         LET record_num == i + 1
             class == Classify(rec[1], HEADER_MARKER, DATA_MARKER)
         IN  /\ input' = rec
             /\ record' = rec
             /\ IF class = "header"
                THEN /\ logs' = Append(logs, LogLine(record_num, "HEADER", << >>))
                     /\ pc' = "write"
                     /\ UNCHANGED <<j, changes, has_change>>
                ELSE IF class = "data"
                THEN /\ changes' = << >>
                     /\ has_change' = FALSE
                     /\ j' = 1
                     /\ pc' = "rules"
                     /\ UNCHANGED logs
                ELSE /\ pc' = "write"
                     /\ UNCHANGED <<j, changes, has_change, logs>>
    /\ UNCHANGED <<filename, missing, config, file_size, settings, rules,
                   record_count, i, modified_count, rule_hits, out_size,
                   summary, exit_code>>

\* lines 121-142: one rule on the record in flight
EvalRule ==
    /\ pc = "rules"
    /\ j <= Len(rules)
    /\ LET rule == rules[j]
           all_match == AllMatch(rule.Conditions, MatchTarget(record))
           r == ApplyUpdates(record, changes, rule.Name, rule.Updates)
       IN  IF all_match
           THEN /\ record' = r.record
                /\ changes' = r.changes
                /\ has_change' = TRUE
                /\ rule_hits' = CountHit(rule_hits, rule)
           ELSE UNCHANGED <<record, changes, has_change, rule_hits>>
    /\ j' = j + 1
    /\ UNCHANGED <<filename, missing, config, file_size, settings, rules,
                   record_count, i, input, modified_count, logs, out_size,
                   summary, exit_code, pc>>

\* lines 144-148: after the last rule, log an updated record
EndRules ==
    /\ pc = "rules"
    /\ j > Len(rules)
    /\ IF has_change
       THEN /\ logs' = Append(logs, LogLine(i + 1, "UPDATED", changes))
            /\ modified_count' = modified_count + 1
       ELSE UNCHANGED <<logs, modified_count>>
    /\ pc' = "write"
    /\ UNCHANGED <<filename, missing, config, file_size, settings, rules,
                   record_count, i, input, record, j, changes, has_change,
                   rule_hits, out_size, summary, exit_code>>

\* line 150: f_out.write(record), and on to the next iteration, which
\* rebinds the locals of the loop body
WriteRecord ==
    /\ pc = "write"
    /\ out_size' = out_size + Len(record)
    /\ i' = i + 1
    /\ input' = << >>
    /\ record' = << >>
    /\ j' = 0
    /\ changes' = << >>
    /\ has_change' = FALSE
    /\ pc' = "loop"
    /\ UNCHANGED <<filename, missing, config, file_size, settings, rules,
                   record_count, modified_count, rule_hits, logs, summary,
                   exit_code>>

\* lines 152-163: the summary, the log file, return 0
Finish ==
    /\ pc = "loop"
    /\ i >= record_count
    /\ summary' = Summary(modified_count, record_count, rule_hits, rules)
    /\ exit_code' = 0
    /\ pc' = "done"
    /\ UNCHANGED <<filename, missing, config, file_size, settings, rules,
                   record_count, i, input, record, j, changes, has_change,
                   modified_count, rule_hits, logs, out_size>>

Next ==
    \/ MissingFile
    \/ Start
    \/ ReadRecord
    \/ EvalRule
    \/ EndRules
    \/ WriteRecord
    \/ Finish

Spec == Init /\ [][Next]_vars

-----------------------------------------------------------------------------
(* Vocabulary of the properties *)

\* the byte window of a condition, an update or a change line, 0-based:
\* [StartByte-1, StartByte-1 + 2*len(text))
Window(f) == { p \in (f.StartByte - 1)..(f.StartByte - 2 + 2 * Len(f.Value)) : TRUE }

WindowInRecord(f) == Window(f) \subseteq 0..(RECORD_SIZE - 1)

\* byte p of the encoded text of f, as its window places it
WindowByte(f, p) == Encode(f.Value)[p - (f.StartByte - 1) + 1]

\* the condition holds of rec: its window lies in rec and holds the encoded text
Matches(cond, rec) ==
    /\ Window(cond) \subseteq 0..(Len(rec) - 1)
    /\ \A p \in Window(cond) : rec[p + 1] = WindowByte(cond, p)

MatchesAll(rule, rec) ==
    \A c \in 1..Len(rule.Conditions) : Matches(rule.Conditions[c], rec)

\* names of the rules that fired on the record in flight
FiredNames == { changes[k].Name : k \in 1..Len(changes) }

\* a record is in flight, read and not yet written
InFlight == pc \in {"rules", "write"}

\* rule number j is being evaluated in this step
EvalStep == pc = "rules" /\ j <= Len(rules) /\ j' = j + 1

AllWindowsInRecord ==
    \A k \in 1..Len(rules) :
        /\ \A c \in 1..Len(rules[k].Conditions) : WindowInRecord(rules[k].Conditions[c])
        /\ \A u \in 1..Len(rules[k].Updates) : WindowInRecord(rules[k].Updates[u])

LinesOf(tag) == { k \in 1..Len(logs) : logs[k].tag = tag }

-----------------------------------------------------------------------------
(* C1 *)

\* C1: every record written is exactly RecordSize bytes long, and a completed
\* run has written as many bytes, and as many records, as the input holds.
C1_SizePreserved ==
    /\ pc = "write" => Len(record) = RECORD_SIZE
    /\ pc = "done" => /\ out_size = file_size
                      /\ i * RECORD_SIZE = file_size

\* What holds of C1: with every window inside the record and no trailing
\* partial record the sizes agree.
SizePreservedWhenWellFormed ==
    (AllWindowsInRecord /\ pc \in {"loop", "rules", "write", "done"}
        /\ file_size % RECORD_SIZE = 0)
    => /\ InFlight => Len(record) = RECORD_SIZE
       /\ pc = "done" => out_size = file_size

-----------------------------------------------------------------------------
(* C2 *)

\* C2: a record whose first byte is the header marker reaches the write
\* unchanged, without passing through the rules and without any counter
\* changing, also when HeaderMarker = DataMarker and a rule would match it.
C2_HeaderUntouched ==
    [][ (pc' \in {"rules", "write"} /\ input'[1] = HEADER_MARKER')
        => /\ pc' = "write"
           /\ record' = input'
           /\ rule_hits' = rule_hits
           /\ modified_count' = modified_count
           /\ changes' = changes ]_vars

C2_Witness ==
    /\ pc = "write"
    /\ input[1] = HEADER_MARKER
    /\ HEADER_MARKER = DATA_MARKER
    /\ \E k \in 1..Len(rules) : MatchesAll(rules[k], input)
    /\ record = input

-----------------------------------------------------------------------------
(* C3 *)

\* the bytes of rec after the updates upds, when all their windows lie in
\* rec: each byte is that of the last update whose window holds it
Written(rec, upds) ==
    [q \in 1..Len(rec) |->
        LET over == { u \in 1..Len(upds) : (q - 1) \in Window(upds[u]) }
        IN  IF over = {} THEN rec[q]
            ELSE LET last == CHOOSE u \in over : \A v \in over : v <= u
                 IN  WindowByte(upds[last], q - 1)]

\* C3: when rule R is evaluated on a data record, if the record matches all
\* of R's conditions then every update of R is applied (one change line per
\* update, and the bytes of its window written) and R's hit counter grows by
\* exactly 1, whatever the number of updates; otherwise nothing is applied
\* and no counter changes.
C3_AllOrNothing ==
    [][ EvalStep =>
        LET R == rules[j]
            n == Len(changes)
        IN  IF MatchesAll(R, record)
            THEN /\ rule_hits' = [rule_hits EXCEPT ![R.Name] = @ + 1]
                 /\ Len(changes') = n + Len(R.Updates)
                 /\ \A u \in 1..Len(R.Updates) :
                        /\ changes'[n + u].Name = R.Name
                        /\ changes'[n + u].StartByte = R.Updates[u].StartByte
                        /\ changes'[n + u].Value = R.Updates[u].Value
                 /\ (\A u \in 1..Len(R.Updates) :
                        Window(R.Updates[u]) \subseteq 0..(Len(record) - 1))
                    => record' = Written(record, R.Updates)
            ELSE /\ rule_hits' = rule_hits
                 /\ record' = record
                 /\ changes' = changes ]_vars

\* a rule with two updates has fired: its counter is 1, not 2
C3_Witness ==
    /\ pc = "rules"
    /\ j > 1
    /\ Len(rules[j - 1].Updates) = 2
    /\ rules[j - 1].Name \in FiredNames
    /\ rule_hits[rules[j - 1].Name] = 1
    /\ record # input

-----------------------------------------------------------------------------
(* C4 *)

\* the bytes the fired updates target
FiredWindows == UNION { Window(changes[k]) : k \in 1..Len(changes) }

\* C4: every byte of the record written that lies outside the windows of the
\* fired updates equals the input byte at the same position.
C4_FrameAsClaimed ==
    pc = "write" =>
        \A p \in 0..(Len(record) - 1) :
            p \notin FiredWindows => (p < Len(input) /\ record[p + 1] = input[p + 1])

\* What holds of C4: the frame is kept when every fired window lies inside
\* the record, and a record on which no rule fired is written as read.
FrameWhenInRecord ==
    pc = "write" =>
        /\ changes = << >> => record = input
        /\ (\A k \in 1..Len(changes) : WindowInRecord(changes[k]))
            => /\ Len(record) = Len(input)
               /\ \A p \in 0..(Len(record) - 1) :
                     p \notin FiredWindows => record[p + 1] = input[p + 1]

-----------------------------------------------------------------------------
(* C5 *)

\* change line b is the last one whose window holds byte p
LastWriter(b, p) ==
    /\ p \in Window(changes[b])
    /\ \A c \in (b + 1)..Len(changes) : p \notin Window(changes[c])

\* C5: where the windows of two fired rules overlap, the record written
\* holds the bytes of the later-declared rule's update.
C5_LastWriterAsClaimed ==
    pc = "write" =>
        \A a, b \in 1..Len(changes) :
            (a < b /\ changes[a].Name # changes[b].Name) =>
                \A p \in Window(changes[a]) :
                    LastWriter(b, p) =>
                        /\ p >= 0 /\ p < Len(record)
                        /\ record[p + 1] = WindowByte(changes[b], p)

\* What holds of C5: last-writer-wins when the windows lie inside the record.
LastWriterWhenInRecord ==
    (pc = "write" /\ \A k \in 1..Len(changes) : WindowInRecord(changes[k])) =>
        \A b \in 1..Len(changes) :
            \A p \in Window(changes[b]) :
                LastWriter(b, p) => record[p + 1] = WindowByte(changes[b], p)

-----------------------------------------------------------------------------
(* C6 *)

\* C6: a run over an input whose length is no multiple of RecordSize does
\* not complete successfully.
C6_TruncationIsFatal ==
    (pc = "done" /\ exit_code = 0) => file_size % RECORD_SIZE = 0

-----------------------------------------------------------------------------
(* C7 *)

\* evaluating rule R on rec reaches a condition or an update whose window
\* is not contained in [0, RecordSize)
ReachesWindowOutside(R, rec) ==
    \/ \E c \in 1..Len(R.Conditions) :
          /\ ~WindowInRecord(R.Conditions[c])
          /\ \A d \in 1..(c - 1) : Matches(R.Conditions[d], rec)
    \/ /\ MatchesAll(R, rec)
       /\ \E u \in 1..Len(R.Updates) : ~WindowInRecord(R.Updates[u])

\* C7: a rule evaluation that reaches a window outside the record aborts
\* the run with a fatal error.
C7_WindowOutsideIsFatal ==
    [][ (EvalStep /\ ReachesWindowOutside(rules[j], record))
        => (exit_code' = 1 /\ pc' = "failed") ]_vars

-----------------------------------------------------------------------------
(* C8 *)

\* C8: the log holds exactly one classification line per record processed,
\* in record order.
C8_OneLinePerRecord ==
    pc = "loop" =>
        /\ Len(logs) = i
        /\ \A k \in 1..Len(logs) : logs[k].num = k

-----------------------------------------------------------------------------
(* C9 *)

\* C9 as claimed: the summary's denominator leaves the header records out,
\* and the reference fixture ends with 2 of 4 updated, hits 2 and 1.
C9_SummaryAsClaimed ==
    pc = "done" =>
        /\ summary.total = record_count - Cardinality(LinesOf("HEADER"))
        /\ filename = "data.dat" =>
              /\ summary.total = 4
              /\ summary.modified = 2
              /\ summary.hits = << << << "Rule-", "1" >>, 2 >>,
                                   << << "Rule-", "2" >>, 1 >> >>

\* C9 amended: the summary's denominator is the number of records of the
\* input, header records included; its numerator is the number of records
\* logged as updated; each rule's hit count is the number of records whose
\* change lines name it; the reference fixture ends with 3 of 5 updated,
\* hits 2 and 1.
C9_Summary ==
    pc = "done" =>
        /\ summary.total = file_size \div RECORD_SIZE
        /\ summary.total = i
        /\ summary.modified = Cardinality(LinesOf("UPDATED"))
        /\ Len(summary.hits) = Len(rules)
        /\ \A k \in 1..Len(rules) :
              summary.hits[k] =
                << rules[k].Name,
                   Cardinality({ l \in 1..Len(logs) :
                       \E m \in 1..Len(logs[l].rules) :
                           logs[l].rules[m] = rules[k].Name }) >>
        /\ filename = "data.dat" =>
              /\ summary.total = 5
              /\ summary.modified = 3
              /\ summary.hits = << << << "Rule-", "1" >>, 2 >>,
                                   << << "Rule-", "2" >>, 1 >> >>

\* the run over the reference fixture has completed
C9_Witness ==
    /\ pc = "done"
    /\ filename = "data.dat"
    /\ Cardinality(LinesOf("HEADER")) = 1
    /\ summary.modified = 3

-----------------------------------------------------------------------------
(* C10 *)

\* rule k has fired on the record in flight
Fired(k) == rules[k].Name \in FiredNames

\* the bytes of the record in flight after the first k rules: the input with
\* the updates of those of them that fired
RECURSIVE AfterRules(_)
AfterRules(k) ==
    IF k = 0 THEN input
    ELSE IF Fired(k)
         THEN ApplyUpdates(AfterRules(k - 1), << >>, rules[k].Name,
                           rules[k].Updates).record
         ELSE AfterRules(k - 1)

\* C10: on a data record, a rule fires exactly when all its conditions hold
\* of the input bytes as updated by the earlier rules that fired, and the
\* record in flight is the input with the updates of the rules that fired.
C10_CurrentBytes ==
    (InFlight /\ j >= 1) =>
        /\ \A k \in 1..(j - 1) : Fired(k) <=> MatchesAll(rules[k], AfterRules(k - 1))
        /\ record = AfterRules(j - 1)

\* a rule has fired whose conditions the input bytes do not meet: an earlier
\* rule's write made it fire
C10_Witness ==
    /\ pc = "write"
    /\ \E k \in 2..Len(rules) :
          /\ Fired(k)
          /\ ~MatchesAll(rules[k], input)
          /\ \E e \in 1..(k - 1) : Fired(e)

\* a rule has not fired whose conditions the input bytes meet: an earlier
\* rule's write stopped it
StoppedByEarlierRule ==
    /\ pc = "write"
    /\ j > Len(rules)
    /\ \E k \in 2..Len(rules) :
          /\ ~Fired(k)
          /\ MatchesAll(rules[k], input)

====
